---- MODULE Spec2Model ----
(***************************************************************************)
(* The build summary tracker of gulpfile.js: trackFile, which accumulates  *)
(* the size measurements of the pipeline stages per source file, and       *)
(* printJsSummary, which renders and resets them, together with the gulp   *)
(* task graphs that call them.                                             *)
(*                                                                         *)
(* JavaScript values are records [t, n, d, s]: t is the kind ("num" is the *)
(* rational n/d in lowest terms, "str" a string, "hole" an array index     *)
(* that was never written, which reads as undefined).  A file name is the  *)
(* sequence of its '.'-separated parts, i.e. the result of split('.').     *)
(***************************************************************************)
EXTENDS Integers, Sequences, FiniteSets, TLC

VARIABLES
    options,        \* the options minimist parsed from the command line
    CONF,           \* the task configuration (CONF, CONF.JS, CONF.CSS)
    trackedFiles,   \* the tracker: entries [name, data] in insertion order
    readFiles,      \* the object printJsSummary last read, as that call left it
    report,         \* the table the last printJsSummary call printed
    dist,           \* the size of each file under public/ that the compressing
                    \* stages read, -1 when it is not there
    combinedJsFiles,\* the JS files task:concatJS bundled
    todo,           \* per branch of the running task graph: the tasks still to run
    started,        \* per branch: whether the stream of its first task is open
    queue,          \* per branch: the files the open stream has still to report
    changed,        \* per task with a since filter: the files written since
                    \* the start of its last completed run
    newer,          \* per branch: the files written since its open stream started
    rebuilds,       \* the rebuilds the watchers have started
    events,         \* history: per key and stage, the calls of trackFile since
                    \* the last reset and the data of the latest one
    last,           \* history: the key and stage of the latest trackFile call
    nTracked,       \* history: trackFile calls since the last reset
    printed,        \* history: events as the last printJsSummary call found it
    prints,         \* history: per branch, its printJsSummary calls
    lateTracks,     \* history: trackFile calls of the first build pass made
                    \* after a printJsSummary call of that pass
    jsDest,         \* per JS file, what public/js/<TAG> holds of it: "old" (the
                    \* previous build), "new" (this run's build) or "none"
    ran             \* history: the tasks the js branch of gulp.parallel ended,
                    \* in order, and whether each completed

tracker == <<trackedFiles, readFiles, report, dist, events, last, nTracked, printed>>
graph == <<combinedJsFiles, todo, started, queue, changed, newer, rebuilds, prints, lateTracks,
           jsDest, ran>>
vars == <<options, CONF, tracker, graph>>

----------------------------------------------------------------------------
(* Bounds of the model *)

\* trackFile calls explored per accumulation window
MaxEvents == 4

\* in a build: the sizes of the files the stages write, and of their
\* compressed copies
BuildSizes == {2048}
PackedSizes == {1024}

\* the '.'-separated parts of the longest base name keys are derived for
MaxParts == 3

\* rebuilds the file watchers start
MaxRebuilds == 1

\* byte sizes the stages report for their output
Sizes == {0, 1024, 3072, 4096}

\* byte sizes of the bundled JS, of the compiled stylesheets and of the
\* source maps
JsSizes == {4096}
CssSizes == {0, 3072}
MapSizes == {1024, 3072}

\* byte size of an empty JS file with the sourceMappingURL comment appended
CommentSize == 1024

\* the assets: one JS module and one stylesheet
JsFiles == {<<"app", "js">>}
CssFiles == {<<"main", "css">>}
Files == JsFiles \cup CssFiles

----------------------------------------------------------------------------
(* JavaScript values *)

Val(t, n, d, s) == [t |-> t, n |-> n, d |-> d, s |-> s]
Hole == Val("hole", 0, 0, <<>>)
Undefined == Val("undefined", 0, 0, <<>>)
NaN == Val("nan", 0, 0, <<>>)
Infinity == Val("inf", 0, 0, <<>>)
Str(s) == Val("str", 0, 0, s)

RECURSIVE GCD(_, _)
GCD(a, b) == IF b = 0 THEN a ELSE GCD(b, a % b)

\* the number n/d (n >= 0, d > 0) in lowest terms
Frac(n, d) == LET g == GCD(n, d) IN Val("num", n \div g, d \div g, <<>>)
Num(n) == Frac(n, 1)

IsNum(v) == v.t = "num"

\* a / b for byte counts and sums of byte counts; an absent operand gives NaN
JsDiv(a, b) ==
    IF ~IsNum(a) \/ ~IsNum(b) THEN NaN
    ELSE IF b.n = 0 THEN (IF a.n = 0 THEN NaN ELSE Infinity)
    ELSE Frac(a.n * b.d, a.d * b.n)

\* a + b for byte counts
JsAdd(a, b) == IF IsNum(a) /\ IsNum(b) THEN Frac(a.n * b.d + b.n * a.d, a.d * b.d) ELSE NaN

\* ToBoolean
Truthy(v) ==
    \/ v.t = "inf"
    \/ v.t = "num" /\ v.n # 0
    \/ v.t = "str" /\ v.s # <<"">>

\* v < p/q  (any comparison with NaN or undefined is false)
JsLess(v, p, q) == IsNum(v) /\ v.n * q < p * v.d

\* v === 1
IsOne(v) == IsNum(v) /\ v.n = v.d

----------------------------------------------------------------------------
(* Settings *)

\* trackTable.cols; JavaScript index i is cols[i + 1]
cols == << "file", "src", "src_percent", "uglify", "gzipFile", "gzip_percent",
           "gzip", "brotliFile", "brotli_percent", "brotli", "all_percent",
           "mapFile", "map" >>

ColIdx == 0 .. (Len(cols) - 1)

\* gZipOptions.threshold, '1kb'
gZipThreshold == 1024

gZipExtension == "gz"
brotliExtension == "br"
compressionExt == <<gZipExtension, brotliExtension>>

\* an array with no index written
EmptyArray == [i \in ColIdx |-> Hole]

\* the position of a key in the tracker, 0 when it is not tracked
RECURSIVE IndexOf(_, _, _)
IndexOf(files, name, i) ==
    IF i > Len(files) THEN 0
    ELSE IF files[i].name = name THEN i
    ELSE IndexOf(files, name, i + 1)

Lookup(files, name) ==
    LET i == IndexOf(files, name, 1) IN IF i = 0 THEN EmptyArray ELSE files[i].data

\* one array shared by every key
StoreShared(files, name, data) ==
    LET all == [i \in 1 .. Len(files) |-> [files[i] EXCEPT !.data = data]] IN
    IF IndexOf(files, name, 1) = 0 THEN Append(all, [name |-> name, data |-> data])
    ELSE all

\* files[name] = data: an existing key keeps its place, a new one is appended
Store(files, name, data) ==
    LET i == IndexOf(files, name, 1) IN
    IF i = 0 THEN Append(files, [name |-> name, data |-> data])
    ELSE [files EXCEPT ![i].data = data]

\* the data object gulp-bytediff hands to the callback of bytediff.stop
Data(fileName, startSize, endSize) ==
    [ fileName    |-> Str(fileName),
      startSize   |-> startSize,
      endSize     |-> endSize,
      percent     |-> JsDiv(endSize, startSize),
      all_percent |-> Undefined ]

\* parts.join('.') as a file name: joining no parts gives the empty string
Join(parts) == IF parts = <<>> THEN <<"">> ELSE parts

\* the first index i of trackTable.cols with cols[i] === col, -1 when none
ColIndex ==
    [c \in {cols[i + 1] : i \in ColIdx} |->
        CHOOSE i \in ColIdx : cols[i + 1] = c /\ \A j \in ColIdx : cols[j + 1] = c => i <= j]

ColOf(col) == IF col \in DOMAIN ColIndex THEN ColIndex[col] ELSE -1

\* the size after minification as the reference of a compression ratio
minifiedSize(fileData) == fileData[2]

\* fileData[0], the size a compression ratio is computed against
referenceSize(fileData) == fileData[0]

\* a mapping that records the size of every compressing stage in one column
SharedMapping(file, percent, size) ==
    (file :> "fileName") @@ (percent :> "percent") @@ ("gzip" :> "endSize")
        @@ ("all_percent" :> "all_percent")

\* the mapping a compression event is recorded with
CompressionMapping(file, percent, size) ==
    (file :> "fileName") @@ (percent :> "percent") @@ (size :> "endSize")
        @@ ("all_percent" :> "all_percent")

\* mapping.all_percent = 'percent'
JsMapping(mapping) ==
    [c \in DOMAIN mapping \cup {"all_percent"} |->
        IF c = "all_percent" THEN "percent" ELSE mapping[c]]

\* a key that is the file name whatever its extension
wholeName(fileNameParts) == fileNameParts

\* the key of a file name: the name without a last part gz, br or map
srcFileName(fileNameParts) ==
    LET fileExt == fileNameParts[Len(fileNameParts)]
        rest == SubSeq(fileNameParts, 1, Len(fileNameParts) - 1)
    IN  IF fileExt \in {compressionExt[1], compressionExt[2], "map"}
        THEN Join(rest) ELSE fileNameParts

\* trackFile(data, mapping): the tracker after the call
trackFile(files, data, mapping) ==
    LET fileNameParts == data.fileName.s
        fileExt == fileNameParts[Len(fileNameParts)]
        fileData == Lookup(files, srcFileName(fileNameParts))
        data2 ==
            IF fileExt \in {gZipExtension, brotliExtension}
            THEN [data EXCEPT !.all_percent = JsDiv(data.endSize, referenceSize(fileData))]
            ELSE data
        mapping2 ==
            CASE fileExt = "js" -> JsMapping(mapping)
              [] fileExt = "map" -> ("mapFile" :> "fileName") @@ ("map" :> "endSize")
              [] fileExt = gZipExtension ->
                    CompressionMapping("gzipFile", "gzip_percent", "gzip")
              [] fileExt = brotliExtension ->
                    CompressionMapping("brotliFile", "brotli_percent", "brotli")
              [] OTHER -> mapping
        written ==
            [i \in ColIdx |->
                IF \E col \in DOMAIN mapping2 : ColOf(col) - 1 = i
                THEN data2[mapping2[CHOOSE col \in DOMAIN mapping2 : ColOf(col) - 1 = i]]
                ELSE fileData[i]]
    IN  Store(files, srcFileName(fileNameParts), written)

\* the mappings the stages pass to trackFile
PrimaryMapping == ("src" :> "startSize") @@ ("src_percent" :> "percent") @@ ("uglify" :> "endSize")
GzipMapping == ("gzipFile" :> "fileName") @@ ("gzip" :> "endSize")
BrotliMapping == ("brotliFile" :> "fileName") @@ ("brotli" :> "endSize")

----------------------------------------------------------------------------
(* printJsSummary *)

On(flag) == flag = "true"

byteCols == {1, 3, 6, 9, 12}
percentCols == {2, 5, 8, 10}

sortCol(conf) ==
    IF On(conf.BROTLI) \/ On(conf.GZIP) \/ On(conf.JS.UGLIFY) THEN 10
    ELSE IF On(conf.JS.SOURCEMAPS) THEN 3 ELSE 1

refAllCol(conf) ==
    IF On(conf.BROTLI) THEN 9
    ELSE IF On(conf.GZIP) THEN 6
    ELSE IF On(conf.JS.UGLIFY) THEN 3
    ELSE IF On(conf.JS.SOURCEMAPS) THEN 3 ELSE 1

\* rowData.unshift(fileName)
Unshift(rowData, fileName) ==
    [i \in ColIdx |-> IF i = 0 THEN Str(fileName) ELSE rowData[i - 1]]

\* the loop over trackedFiles: every tracked array gets its key put in front
UnshiftAll(files) ==
    [k \in 1 .. Len(files) |->
        [name |-> files[k].name, data |-> Unshift(files[k].data, files[k].name)]]

\* tableData.push(rowData) for every key
RowsOf(files) == [k \in 1 .. Len(files) |-> files[k].data]

\* a[sortCol] - b[sortCol]: "lt", "eq", "gt", or "nan" when it is not a number
Compare(a, b) ==
    CASE IsNum(a) /\ IsNum(b) ->
            IF a.n * b.d < b.n * a.d THEN "lt"
            ELSE IF a.n * b.d > b.n * a.d THEN "gt" ELSE "eq"
      [] a.t = "inf" /\ IsNum(b) -> "gt"
      [] IsNum(a) /\ b.t = "inf" -> "lt"
      [] OTHER -> "nan"

\* a sort that leaves the rows in any order
AnyOrder(rows, col) == Permutations(1 .. Len(rows))

\* tableData.sort(...): the orders Array.prototype.sort may leave the rows in.
\* With a comparator that is a number for every pair the rows end ascending,
\* equal rows in their old order; with one that is NaN for some pair the
\* order is implementation-defined.
SortOutcomes(rows, col) ==
    LET n == Len(rows)
        consistent == \A i, j \in 1 .. n : Compare(rows[i][col], rows[j][col]) # "nan"
    IN  { p \in Permutations(1 .. n) :
            consistent =>
                \A i, j \in 1 .. n : i < j =>
                    LET c == Compare(rows[p[i]][col], rows[p[j]][col]) IN
                    c = "lt" \/ (c = "eq" /\ p[i] < p[j]) }

\* a footer that keeps the last value of a column instead of its sum
LastCells(sumRow, row) ==
    [i \in ColIdx |-> IF i \in byteCols /\ row[i] # Hole THEN row[i] ELSE sumRow[i]]

\* sumCols: one row added to sumRow
SumCells(sumRow, row) ==
    [i \in ColIdx |->
        IF i \in byteCols /\ row[i] # Hole
        THEN (IF Truthy(sumRow[i]) THEN JsAdd(sumRow[i], row[i]) ELSE row[i])
        ELSE sumRow[i]]

RECURSIVE sumCols(_, _, _)
sumCols(rows, k, sumRow) ==
    IF k > Len(rows) THEN sumRow ELSE sumCols(rows, k + 1, SumCells(sumRow, rows[k]))

\* x || 0
OrZero(x) == IF Truthy(x) THEN x ELSE Num(0)

\* the percent cells of the footer
Footer(sumRow, conf) ==
    [i \in ColIdx |->
        CASE i = 2 -> JsDiv(sumRow[3], sumRow[1])
          [] i = 5 -> JsDiv(OrZero(sumRow[6]), sumRow[3])
          [] i = 8 -> JsDiv(OrZero(sumRow[9]), sumRow[3])
          [] i = 10 -> JsDiv(OrZero(sumRow[refAllCol(conf)]), sumRow[1])
          [] OTHER -> sumRow[i]]

\* n rounded to three significant digits, as toPrecision(3) does
RECURSIVE Round3(_, _)
Round3(n, p) ==
    IF n < 1000 * p THEN ((2 * n + p) \div (2 * p)) * p ELSE Round3(n, 10 * p)

\* prettyBytes(y): [n, d] is n bytes shown in the unit 1000^d; a value that is
\* no finite number raises a TypeError
prettyBytes(y) ==
    IF ~IsNum(y) \/ y.d # 1 THEN Val("TypeError", 0, 0, <<>>)
    ELSE IF y.n < 1000 THEN Val("bytes", y.n, 0, <<"B">>)
    ELSE IF y.n < 1000000 THEN Val("bytes", Round3(y.n, 1), 1, <<"kB">>)
    ELSE Val("bytes", Round3(y.n, 1), 2, <<"MB">>)

\* y ? (100 * (1 - y)).toFixed(1) + '%' : '': n is the number of tenths
formatPercent(y) ==
    IF ~Truthy(y) THEN Str(<<"">>)
    ELSE IF y.t = "inf" THEN Val("percent", 0, 0, <<"-Infinity">>)
    ELSE Val("percent", (2000 * (y.d - y.n) + y.d) \div (2 * y.d), 1, <<>>)

\* a ratio of 1 counted as a success in every percent column
isSuccessAnyCol(y, i, conf) == IsOne(y) /\ ~On(conf.JS.UGLIFY)

isSuccess(y, i, conf) ==
    IsOne(y) /\ ~On(conf.JS.UGLIFY) /\ cols[i + 1] = "src_percent"

\* the list of highLightRow a percent cell is pushed to
highLight(y, i, conf) ==
    IF JsLess(y, 3, 10) \/ isSuccess(y, i, conf) THEN "success"
    ELSE IF JsLess(y, 1, 2) THEN "warning"
    ELSE "danger"

formatCell(y, i) ==
    IF i \in byteCols THEN prettyBytes(y)
    ELSE IF i \in percentCols THEN formatPercent(y)
    ELSE y

\* formatCols: Array.prototype.map skips the holes
formatCols(rows) ==
    [k \in 1 .. Len(rows) |->
        [i \in ColIdx |-> IF rows[k][i] = Hole THEN Hole ELSE formatCell(rows[k][i], i)]]

highLightRow(rows, conf) ==
    [tier \in {"success", "warning", "danger"} |->
        [c \in {"src_percent", "gzip_percent", "brotli_percent", "all_percent"} |->
            { k - 1 : k \in { r \in 1 .. Len(rows) :
                rows[r][ColOf(c)] # Hole /\ highLight(rows[r][ColOf(c)], ColOf(c), conf) = tier } }]]

\* table.removeColumn(i) on the list of columns still in the table
removeColumn(columns, i) ==
    IF i + 1 > Len(columns) THEN columns
    ELSE SubSeq(columns, 1, i) \o SubSeq(columns, i + 2, Len(columns))

RECURSIVE removeColumns(_, _)
removeColumns(columns, idx) ==
    IF idx = <<>> THEN columns
    ELSE removeColumns(removeColumn(columns, Head(idx)), Tail(idx))

\* column removal with one independent rule per group of columns
flatVisibleCols(conf) ==
    LET all == [i \in 1 .. Len(cols) |-> i - 1]
        noMaps == IF ~On(conf.JS.SOURCEMAPS) THEN <<12, 11>> ELSE <<>>
        noCompression ==
            IF ~On(conf.BROTLI) /\ ~On(conf.GZIP) /\ ~On(conf.JS.UGLIFY)
            THEN <<10, 9, 8, 7, 6, 5, 4, 3, 2>> ELSE <<>>
    IN  removeColumns(all, noMaps \o noCompression)

\* the columns left after "Remove irrelevant columns"
visibleCols(conf) ==
    LET all == [i \in 1 .. Len(cols) |-> i - 1]
        noMaps == IF ~On(conf.JS.SOURCEMAPS) THEN <<12, 11>> ELSE <<>>
        noCompression ==
            IF ~On(conf.JS.SOURCEMAPS) /\ ~On(conf.BROTLI) /\ ~On(conf.GZIP)
            THEN <<10, 9, 8, 7, 6, 5, 4>> ELSE <<>>
        noUglify ==
            IF ~On(conf.JS.SOURCEMAPS) /\ ~On(conf.BROTLI) /\ ~On(conf.GZIP)
                /\ ~On(conf.JS.UGLIFY)
            THEN <<3, 2>> ELSE <<>>
    IN  removeColumns(all, noMaps \o noCompression \o noUglify)

\* printJsSummary(), with the rows left by the sort in the order perm:
\* the printed table and the object it read
printJsSummary(files, conf, perm) ==
    LET read == UnshiftAll(files)
        tableData == [k \in 1 .. Len(read) |-> RowsOf(read)[perm[k]]]
        sumRow == Footer(sumCols(tableData, 1, EmptyArray), conf)
        allRows == Append(tableData, sumRow)
        visible == visibleCols(conf)
        cells == formatCols(allRows)
    IN  [ report |->
            [ head |-> [j \in 1 .. Len(visible) |-> cols[visible[j] + 1]],
              sortCol |-> sortCol(conf),
              tableData |-> allRows,
              rows |-> [k \in 1 .. Len(cells) |->
                          [j \in 1 .. Len(visible) |-> cells[k][visible[j]]]],
              highLightRow |-> highLightRow(allRows, conf) ],
          read |-> read ]

----------------------------------------------------------------------------
(* State *)

Flags == {"true", "false"}

\* CONF after task:configDevelop / task:configProduction merged the defaults:
\* every flag is the command line's value or the task's default
MergedConf ==
    { [TASK |-> t, TAG |-> "v1.0.0", JS |-> [UGLIFY |-> u, SOURCEMAPS |-> m],
       CSS |-> [SOURCEMAPS |-> IF t = "production" THEN "true" ELSE "false"],
       GZIP |-> g, BROTLI |-> b, DEBUG |-> "false"] :
        t \in {"default", "production"}, u \in Flags, m \in Flags, g \in Flags, b \in Flags }

\* a value minimist can give an option: absent, the strings 'true' and 'false',
\* or the boolean true of an option written without a value
OptionValues == {"absent", "true", "false", "bare"}

\* options.hasOwnProperty(x) ? options.x === 'true' : undefined
optionFlag(value) ==
    IF value = "absent" THEN "undefined" ELSE IF value = "true" THEN "true" ELSE "false"

\* the version of pathfinder.ini, undefined when the file has none
TagVersions == {"undefined", "v1.0.0"}

\* let CONF = {...}: the configuration the command line gives before any merge
InitialConf(opts, tagVersion) ==
    [ TASK |-> opts.task,
      TAG |-> IF opts.tag # "absent" THEN opts.tag ELSE tagVersion,
      JS |-> [ UGLIFY |-> optionFlag(opts.jsUglify),
               SOURCEMAPS |-> optionFlag(opts.jsSourcemaps) ],
      CSS |-> [ SOURCEMAPS |-> optionFlag(opts.cssSourcemaps) ],
      GZIP |-> optionFlag(opts.gzip),
      BROTLI |-> optionFlag(opts.brotli),
      DEBUG |-> "false" ]

\* a command line that gives the task and every flag of conf but the CSS one
OptionsOf(conf) ==
    [ task |-> conf.TASK, tag |-> "absent", jsUglify |-> conf.JS.UGLIFY,
      jsSourcemaps |-> conf.JS.SOURCEMAPS, cssSourcemaps |-> "absent",
      gzip |-> conf.GZIP, brotli |-> conf.BROTLI ]

NoReport ==
    [ head |-> <<>>, sortCol |-> -1, tableData |-> <<>>, rows |-> <<>>,
      highLightRow |-> highLightRow(<<>>, [JS |-> [UGLIFY |-> "false"]]) ]

Stages == {"primary", "gzip", "brotli", "map"}

\* the mapping a stage passes to trackFile
MappingOf(stage) ==
    CASE stage = "gzip" -> GzipMapping
      [] stage = "brotli" -> BrotliMapping
      [] OTHER -> PrimaryMapping

NoEvent == [n |-> 0, data |-> Data(<<"">>, Undefined, Undefined)]
NoEvents == [f \in Files |-> [stage \in Stages |-> NoEvent]]
NoLast == [file |-> <<>>, stage |-> ""]

----------------------------------------------------------------------------
(* The callbacks of bytediff.stop, and task:printJsSummary *)

\* nothing between bytediff.start() and bytediff.stop() changes a JS file
Untouched(conf) == ~On(conf.JS.UGLIFY) /\ ~On(conf.JS.SOURCEMAPS)

\* the callback of a stage for the asset f calls trackFile with data
Track(f, stage, data) ==
    /\ trackedFiles' = trackFile(trackedFiles, data, MappingOf(stage))
    /\ nTracked' = nTracked + 1
    /\ events' = [events EXCEPT ![f][stage] = [n |-> @.n + 1, data |-> data]]
    /\ last' = [file |-> f, stage |-> stage]
    /\ UNCHANGED <<options, CONF, readFiles, report, printed>>

\* task:concatJS and task:diffJS report a built JS file
JsStop(f, startSize, endSize, overwrite) ==
    /\ Untouched(CONF) => endSize = startSize
    /\ (startSize = 0 /\ ~On(CONF.JS.SOURCEMAPS)) => endSize = 0
    /\ Track(f, "primary", Data(f, Num(startSize), Num(endSize)))
    /\ dist' = [dist EXCEPT ![f] = IF overwrite \/ dist[f] < 0 THEN endSize ELSE @]

\* ... and the source map sourcemaps.write() put in the stream beside it
MapStop(f, endSize) ==
    /\ On(CONF.JS.SOURCEMAPS)
    /\ Track(f, "map", Data(f \o <<"map">>, Undefined, Num(endSize)))
    /\ UNCHANGED dist

\* task:sass reports a stylesheet: bytediff.stop() follows bytediff.start()
SassStop(f, startSize) ==
    /\ Track(f, "primary", Data(f, Num(startSize), Num(startSize)))
    /\ dist' = [dist EXCEPT ![f] = startSize]

\* the event of a compressing stage for a file of startSize bytes: the file
\* under its new name when it was compressed, the file itself when it was
\* passed through (below the threshold, or no smaller when compressed)
CompressedData(f, ext, threshold, startSize, endSize) ==
    IF startSize >= threshold /\ endSize < startSize
    THEN Data(f \o <<ext>>, Num(startSize), Num(endSize))
    ELSE Data(f, Num(startSize), Num(startSize))

\* task:gzipAssets reports a file it read from public/
GzipStop(f, endSize) ==
    /\ On(CONF.GZIP)
    /\ dist[f] >= 0
    /\ endSize > 0
    /\ Track(f, "gzip", CompressedData(f, gZipExtension, gZipThreshold, dist[f], endSize))
    /\ UNCHANGED dist

\* task:brotliAssets reports a file it read from public/
BrotliStop(f, endSize) ==
    /\ On(CONF.BROTLI)
    /\ dist[f] >= 0
    /\ endSize > 0
    /\ Track(f, "brotli", CompressedData(f, brotliExtension, 0, dist[f], endSize))
    /\ UNCHANGED dist

\* a summary that leaves the tracker as it read it
keepTracked(read) == read

\* trackedFiles = {}: the tracker after the summary, which read the object read
resetTracked(read) == <<>>

\* task:printJsSummary
PrintSummary ==
    \E perm \in SortOutcomes(RowsOf(UnshiftAll(trackedFiles)), sortCol(CONF)) :
        LET out == printJsSummary(trackedFiles, CONF, perm) IN
        /\ report' = out.report
        /\ readFiles' = out.read
        /\ trackedFiles' = resetTracked(out.read)
        /\ events' = NoEvents
        /\ last' = NoLast
        /\ nTracked' = 0
        /\ printed' = events
        /\ UNCHANGED <<options, CONF, dist>>

----------------------------------------------------------------------------
(* The state when gulp starts a task *)

Branches == {"main", "js", "css", "watch", "watchJs", "watchCss"}
SinceTasks == {"task:diffJS", "task:gzipAssets", "task:brotliAssets", "task:renameJsDest"}

InitTracker ==
    /\ trackedFiles = <<>>
    /\ readFiles = <<>>
    /\ report = NoReport
    /\ dist = [f \in Files |-> -1]
    /\ events = NoEvents
    /\ last = NoLast
    /\ nTracked = 0
    /\ printed = NoEvents

InitGraph ==
    /\ combinedJsFiles = {}
    /\ todo = [b \in Branches |-> <<>>]
    /\ started = [b \in Branches |-> FALSE]
    /\ queue = [b \in Branches |-> <<>>]
    /\ changed = [t \in SinceTasks |-> Files]
    /\ newer = [b \in Branches |-> {}]
    /\ rebuilds = 0
    /\ prints = [b \in Branches |-> 0]
    /\ lateTracks = FALSE
    /\ jsDest = [f \in JsFiles |-> "old"]
    /\ ran = <<>>

----------------------------------------------------------------------------
(* One accumulation window of the tracker and its summary: the events of   *)
(* the stages in any order, then task:printJsSummary                       *)

InitTrack ==
    /\ CONF \in {c \in MergedConf : c.TASK = "production"}
    /\ options = OptionsOf(CONF)
    /\ InitTracker
    /\ InitGraph

\* the window is open: its summary is not printed, and there is room for an event
Open == report = NoReport /\ nTracked < MaxEvents

TrackJs ==
    \E f \in JsFiles, s \in JsSizes \cup {0} :
        \E e \in IF s = 0 THEN {0, CommentSize} ELSE Sizes \ {0} :
            Open /\ JsStop(f, s, e, TRUE) /\ UNCHANGED graph
TrackMap ==
    \E f \in JsFiles, e \in MapSizes : Open /\ MapStop(f, e) /\ UNCHANGED graph
TrackCss ==
    \E f \in CssFiles, s \in CssSizes : Open /\ SassStop(f, s) /\ UNCHANGED graph
TrackGzip ==
    \E f \in Files, e \in Sizes : Open /\ GzipStop(f, e) /\ UNCHANGED graph
TrackBrotli ==
    \E f \in Files, e \in Sizes : Open /\ BrotliStop(f, e) /\ UNCHANGED graph
Summary == report = NoReport /\ PrintSummary /\ UNCHANGED graph

NextTrack == TrackJs \/ TrackMap \/ TrackCss \/ TrackGzip \/ TrackBrotli \/ Summary

SpecTrack == InitTrack /\ [][NextTrack]_vars

----------------------------------------------------------------------------
(* The task graphs of gulp.task('production') and gulp.task('default') *)

CONF_DEVELOP ==
    [ JS |-> [UGLIFY |-> "false", SOURCEMAPS |-> "false"],
      CSS |-> [SOURCEMAPS |-> "false"], GZIP |-> "false", BROTLI |-> "false" ]
CONF_PRODUCTION ==
    [ JS |-> [UGLIFY |-> "true", SOURCEMAPS |-> "true"],
      CSS |-> [SOURCEMAPS |-> "true"], GZIP |-> "true", BROTLI |-> "true" ]

\* the default whatever the command line gave
overrideFlag(user, default) == default

\* a flag of confUser that is undefined takes the value of confDefault
mergeFlag(user, default) == IF user = "undefined" THEN default ELSE user

\* the keys of CONF whose values are objects
ObjectKeys == {"JS", "CSS"}

\* mergeConf on an object of flags: the keys of confUser that confDefault has
mergeKeys(confUser, confDefault) ==
    [ confKey \in DOMAIN confUser |->
        IF confKey \in DOMAIN confDefault
        THEN mergeFlag(confUser[confKey], confDefault[confKey])
        ELSE confUser[confKey] ]

\* mergeConf(confUser, confDefault): a key confDefault does not have (TASK, TAG,
\* DEBUG) keeps its value, an object is merged key by key
mergeConf(confUser, confDefault) ==
    [ confKey \in DOMAIN confUser |->
        IF confKey \notin DOMAIN confDefault THEN confUser[confKey]
        ELSE IF confKey \in ObjectKeys
             THEN mergeKeys(confUser[confKey], confDefault[confKey])
             ELSE mergeFlag(confUser[confKey], confDefault[confKey]) ]

updateJsDest ==
    << "task:gzipAssets", "task:brotliAssets", "task:renameJsDest",
       "task:printJsSummary", "task:cleanJsBuild" >>
\* the final directory cleaned before anything is built
cleanFirst == <<"task:cleanJsDest", "task:concatJS", "task:diffJS">> \o updateJsDest
buildJs == <<"task:concatJS", "task:diffJS", "task:cleanJsDest">> \o updateJsDest
buildCss == <<"task:sass">>
watchJsSrc == <<"task:hintJS", "task:diffJS">> \o updateJsDest
watchCss == buildCss \o <<"task:gzipAssets", "task:brotliAssets", "task:printJsSummary">>

\* the series a top-level task runs before its gulp.parallel
MainSeries(task) ==
    IF task = "production"
    THEN <<"task:configProduction", "task:cleanJsBuild", "task:cleanCssBuild", "parallel">>
    ELSE <<"task:configDevelop", "parallel">>

\* the branches of its gulp.parallel
Parallel(task) ==
    [b \in Branches |->
        CASE task = "production" /\ b = "js" -> buildJs
          [] task = "production" /\ b = "css" -> watchCss
          [] task = "default" /\ b = "js" -> <<"task:cleanJsBuild">> \o watchJsSrc
          [] task = "default" /\ b = "css" -> <<"task:cleanCssBuild">> \o watchCss
          [] task = "default" /\ b = "watch" -> <<"task:setWatcher">>
          [] OTHER -> <<>>]

\* the branches of the first build pass
FirstPass == {"js", "css"}

Current(b) == IF todo[b] = <<>> THEN "" ELSE Head(todo[b])

\* the task of branch b is done: the series goes on
Done(b) ==
    /\ todo' = [todo EXCEPT ![b] = Tail(@)]
    /\ started' = [started EXCEPT ![b] = FALSE]
    /\ ran' = IF b = "js" THEN Append(ran, [task |-> Current(b), ok |-> TRUE]) ELSE ran

\* task:configProduction and task:configDevelop
Configure(b) ==
    /\ Current(b) \in {"task:configProduction", "task:configDevelop"}
    /\ CONF' = mergeConf(CONF, IF Current(b) = "task:configProduction"
                               THEN CONF_PRODUCTION ELSE CONF_DEVELOP)
    /\ IF CONF'.TAG = "undefined"
       THEN \* task:checkConfig: process.exit(0), nothing else runs
            /\ todo' = [c \in Branches |-> <<>>]
            /\ started' = [c \in Branches |-> FALSE]
            /\ UNCHANGED ran
       ELSE Done(b)
    /\ UNCHANGED <<options, tracker, combinedJsFiles, queue, changed, newer, rebuilds,
                   prints, lateTracks, jsDest>>

\* gulp.parallel starts its branches
Fork ==
    /\ Current("main") = "parallel"
    /\ todo' = [b \in Branches |-> IF b = "main" THEN <<>> ELSE Parallel(CONF.TASK)[b]]
    /\ UNCHANGED <<options, CONF, tracker, combinedJsFiles, started, queue, changed, newer,
                   rebuilds, prints, lateTracks, jsDest, ran>>

\* task:cleanJsBuild and task:cleanCssBuild delete the build directories
Clean(b) ==
    /\ Current(b) \in {"task:cleanJsBuild", "task:cleanCssBuild"}
    /\ dist' = [f \in Files |->
                  IF (Current(b) = "task:cleanJsBuild" /\ f \in JsFiles)
                     \/ (Current(b) = "task:cleanCssBuild" /\ f \in CssFiles)
                  THEN -1 ELSE dist[f]]
    /\ Done(b)
    /\ UNCHANGED <<options, CONF, trackedFiles, readFiles, report, events, last, nTracked, printed,
                   combinedJsFiles, queue, changed, newer, rebuilds, prints, lateTracks, jsDest>>

\* task:hintJS, task:cleanJsDest and task:renameJsDest leave the tracker and
\* the files the stages read alone: cleanJsDest deletes public/js/<TAG>, and
\* renameJsDest copies to it the files of the build directory written since
\* its last run
Pass(b) ==
    /\ Current(b) \in {"task:hintJS", "task:cleanJsDest", "task:renameJsDest"}
    /\ jsDest' =
          CASE Current(b) = "task:cleanJsDest" -> [f \in JsFiles |-> "none"]
            [] Current(b) = "task:renameJsDest" ->
                  [f \in JsFiles |->
                      IF dist[f] >= 0 /\ f \in changed["task:renameJsDest"]
                      THEN "new" ELSE jsDest[f]]
            [] OTHER -> jsDest
    /\ changed' = IF Current(b) = "task:renameJsDest"
                  THEN [changed EXCEPT !["task:renameJsDest"] = {}] ELSE changed
    /\ Done(b)
    /\ UNCHANGED <<options, CONF, tracker, combinedJsFiles, queue, newer, rebuilds,
                   prints, lateTracks>>

\* task:setWatcher: gulp.watch is set up; the task never signals completion
SetWatcher(b) ==
    /\ Current(b) = "task:setWatcher"
    /\ ~started[b]
    /\ started' = [started EXCEPT ![b] = TRUE]
    /\ UNCHANGED <<options, CONF, tracker, combinedJsFiles, todo, queue, changed, newer, rebuilds,
                   prints, lateTracks, jsDest, ran>>

\* a watcher sees the source f change and runs its series, unless it runs;
\* the changes explored are those that follow the first pass
Watch(f) ==
    LET b == IF f \in JsFiles THEN "watchJs" ELSE "watchCss" IN
    /\ started["watch"]
    /\ \A c \in FirstPass : todo[c] = <<>>
    /\ todo[b] = <<>>
    /\ rebuilds < MaxRebuilds
    /\ rebuilds' = rebuilds + 1
    /\ todo' = [todo EXCEPT ![b] = IF f \in JsFiles THEN watchJsSrc ELSE watchCss]
    /\ changed' = [changed EXCEPT !["task:diffJS"] = IF f \in JsFiles THEN @ \cup {f} ELSE @]
    /\ newer' = [c \in Branches |->
                    IF f \in JsFiles /\ Current(c) = "task:diffJS" /\ started[c]
                    THEN newer[c] \cup {f} ELSE newer[c]]
    /\ UNCHANGED <<options, CONF, tracker, combinedJsFiles, started, queue, prints, lateTracks,
                   jsDest, ran>>

SetToSeq(S) == CHOOSE q \in [1 .. Cardinality(S) -> S] : \A x \in S : \E i \in DOMAIN q : q[i] = x

Item(f, kind) == [file |-> f, kind |-> kind]

\* the files sourcemaps.write() and the stage put in the stream for one JS file
JsItems(f) ==
    (IF On(CONF.JS.SOURCEMAPS) THEN <<Item(f, "map")>> ELSE <<>>) \o <<Item(f, "js")>>

RECURSIVE Flatten(_)
Flatten(qs) == IF qs = <<>> THEN <<>> ELSE Head(qs) \o Flatten(Tail(qs))

\* gulp.src(...) of a stream task: the files it will report
Source(task) ==
    LET js(S) == Flatten([k \in 1 .. Cardinality(S) |-> JsItems(SetToSeq(S)[k])])
        of(S, kind) == [k \in 1 .. Cardinality(S) |-> Item(SetToSeq(S)[k], kind)]
        inPublic(t) == {f \in Files : dist[f] >= 0 /\ f \in changed[t]}
    IN  CASE task = "task:concatJS" -> js(JsFiles)
          [] task = "task:diffJS" ->
                js({f \in JsFiles : f \notin combinedJsFiles /\ f \in changed[task]})
          [] task = "task:sass" -> of(CssFiles, "css")
          [] task = "task:gzipAssets" ->
                IF On(CONF.GZIP) THEN of(inPublic(task), "gz") ELSE <<>>
          [] task = "task:brotliAssets" ->
                IF On(CONF.BROTLI) THEN of(inPublic(task), "br") ELSE <<>>

StreamTasks ==
    {"task:concatJS", "task:diffJS", "task:sass", "task:gzipAssets", "task:brotliAssets"}

\* a stream task starts
OpenStream(b) ==
    /\ Current(b) \in StreamTasks
    /\ ~started[b]
    /\ started' = [started EXCEPT ![b] = TRUE]
    /\ queue' = [queue EXCEPT ![b] = Source(Current(b))]
    /\ newer' = [newer EXCEPT ![b] = {}]
    /\ UNCHANGED <<options, CONF, tracker, combinedJsFiles, todo, changed, rebuilds, prints,
                   lateTracks, jsDest, ran>>

\* the callback of bytediff.stop for the next file of the stream of branch b
Stop(b) ==
    /\ started[b]
    /\ queue[b] # <<>>
    /\ LET f == Head(queue[b]).file
           kind == Head(queue[b]).kind
           wrote == kind \in {"js", "css"}
       IN  /\ CASE kind = "js" ->
                      \E s \in JsSizes : \E e \in IF Untouched(CONF) THEN {s} ELSE BuildSizes :
                          JsStop(f, s, e, Current(b) = "task:concatJS")
                [] kind = "map" -> \E e \in BuildSizes : MapStop(f, e)
                [] kind = "css" -> \E s \in BuildSizes : SassStop(f, s)
                [] kind = "gz" ->
                      IF dist[f] >= 0 THEN \E e \in PackedSizes : GzipStop(f, e)
                      ELSE UNCHANGED <<options, CONF, tracker>>
                [] kind = "br" ->
                      IF dist[f] >= 0 THEN \E e \in PackedSizes : BrotliStop(f, e)
                      ELSE UNCHANGED <<options, CONF, tracker>>
           /\ combinedJsFiles' =
                 IF Current(b) = "task:concatJS" /\ kind = "js"
                 THEN combinedJsFiles \cup {f} ELSE combinedJsFiles
           /\ changed' = [t \in SinceTasks |->
                            IF wrote /\ t # "task:diffJS"
                               /\ (t = "task:renameJsDest" => f \in JsFiles)
                            THEN changed[t] \cup {f}
                            ELSE changed[t]]
           /\ newer' = [c \in Branches |->
                            IF wrote /\ started[c]
                               /\ Current(c) \in {"task:gzipAssets", "task:brotliAssets"}
                            THEN newer[c] \cup {f} ELSE newer[c]]
    /\ queue' = [queue EXCEPT ![b] = Tail(@)]
    /\ lateTracks' = (lateTracks \/ (b \in FirstPass /\ \E c \in FirstPass : prints[c] > 0))
    /\ UNCHANGED <<todo, started, rebuilds, prints, jsDest, ran>>

\* the stream of branch b ends
CloseStream(b) ==
    /\ started[b]
    /\ Current(b) \in StreamTasks
    /\ queue[b] = <<>>
    /\ changed' = [t \in SinceTasks |-> IF t = Current(b) THEN newer[b] ELSE changed[t]]
    /\ Done(b)
    /\ UNCHANGED <<options, CONF, tracker, combinedJsFiles, queue, newer, rebuilds, prints,
                   lateTracks, jsDest>>

\* the tasks whose stream can end with an error: the optimizer and the
\* minifier have no error handler
FailingTasks == {"task:concatJS", "task:diffJS"}

\* the stream of branch b ends with an error: its series stops there, and so
\* does gulp when the series is of the task of the command line
Fail(b) ==
    /\ started[b]
    /\ Current(b) \in FailingTasks
    /\ todo' = [c \in Branches |-> IF c = b \/ b \in FirstPass THEN <<>> ELSE todo[c]]
    /\ started' = [c \in Branches |-> IF c = b \/ b \in FirstPass THEN FALSE ELSE started[c]]
    /\ queue' = [queue EXCEPT ![b] = <<>>]
    /\ ran' = IF b = "js" THEN Append(ran, [task |-> Current(b), ok |-> FALSE]) ELSE ran
    /\ UNCHANGED <<options, CONF, tracker, combinedJsFiles, changed, newer, rebuilds, prints,
                   lateTracks, jsDest>>

\* task:printJsSummary in the series of branch b
RunPrintJsSummary(b) ==
    /\ Current(b) = "task:printJsSummary"
    /\ PrintSummary
    /\ prints' = [prints EXCEPT ![b] = @ + 1]
    /\ Done(b)
    /\ UNCHANGED <<combinedJsFiles, queue, changed, newer, rebuilds, lateTracks, jsDest>>

Tasks == {"default", "production"}

\* the command lines the task graphs are run with: no flag given, or every JS
\* and compression flag given as 'true' or 'false'
CommandLines ==
    { [ task |-> t, tag |-> "absent", jsUglify |-> "absent", jsSourcemaps |-> "absent",
        cssSourcemaps |-> "absent", gzip |-> "absent", brotli |-> "absent" ] : t \in Tasks }
    \cup { OptionsOf(c) : c \in MergedConf }

\* gulp starts with the task and the options of the command line
Init ==
    /\ options \in CommandLines
    /\ \E tagVersion \in TagVersions : CONF = InitialConf(options, tagVersion)
    /\ InitTracker
    /\ combinedJsFiles = {}
    /\ todo = [b \in Branches |-> IF b = "main" THEN MainSeries(CONF.TASK) ELSE <<>>]
    /\ started = [b \in Branches |-> FALSE]
    /\ queue = [b \in Branches |-> <<>>]
    /\ changed = [t \in SinceTasks |-> Files]
    /\ newer = [b \in Branches |-> {}]
    /\ rebuilds = 0
    /\ prints = [b \in Branches |-> 0]
    /\ lateTracks = FALSE
    /\ jsDest = [f \in JsFiles |-> "old"]
    /\ ran = <<>>

Next ==
    \/ Fork
    \/ \E f \in Files : Watch(f)
    \/ \E b \in Branches :
          \/ Configure(b)
          \/ Clean(b)
          \/ Pass(b)
          \/ SetWatcher(b)
          \/ OpenStream(b)
          \/ Stop(b)
          \/ CloseStream(b)
          \/ Fail(b)
          \/ RunPrintJsSummary(b)

Spec == Init /\ [][Next]_vars

----------------------------------------------------------------------------
(* Properties of the task graphs *)

\* the data of a compressing stage was written under a .gz or .br name
IsCompressed(data) ==
    data.fileName.s[Len(data.fileName.s)] \in {gZipExtension, brotliExtension}

\* C1: in the first build pass of a task printJsSummary is called once, and
\* no stage of the pass calls trackFile after a printJsSummary call of the
\* pass has reset the tracker
C1_OnePrintPerPass ==
    /\ prints["js"] + prints["css"] <= 1
    /\ ~lateTracks

\* C2: when trackFile has recorded a compression event (a .gz or .br file)
\* for a key, the record of the key holds the source size in slot 0
C2_SourceSizeRecorded ==
    (last # NoLast /\ IsCompressed(events[last.file][last.stage].data))
        => Lookup(trackedFiles, last.file)[0] # Hole

\* the stages that write index i of a row (a tracked array behind its key)
SlotStages(i) ==
    CASE i \in {1, 2, 3} -> {"primary"}
      [] i \in {4, 5, 6} -> {"gzip"}
      [] i \in {7, 8, 9} -> {"brotli"}
      [] i = 10 -> {"primary", "gzip", "brotli"}
      [] OTHER -> {"map"}

\* the key of the row and every slot it holds were recorded by a call in evs
FromEvents(row, evs) ==
    /\ row[0].s \in Files
    /\ \A i \in 1 .. 12 :
          row[i] # Hole => \E stage \in SlotStages(i) : evs[row[0].s][stage].n > 0

\* C5: after printJsSummary the tracker is empty, and every row and slot of a
\* report, and of the tracker, comes from a trackFile call made since the
\* reset before it
C5_NothingCarriesOver ==
    /\ nTracked = 0 => trackedFiles = <<>>
    /\ \A k \in 1 .. Len(report.tableData) - 1 : FromEvents(report.tableData[k], printed)
    /\ \A k \in 1 .. Len(trackedFiles) :
          FromEvents(Unshift(trackedFiles[k].data, trackedFiles[k].name), events)

\* a second summary has printed rows, and left the tracker empty
C5_SecondReport ==
    /\ \E b, c \in Branches : b # c /\ prints[b] > 0 /\ prints[c] > 0
    /\ Len(report.tableData) > 1
    /\ trackedFiles = <<>>

----------------------------------------------------------------------------
(* Properties of trackFile *)

\* the tracked array of the key f
Record(f) == Lookup(trackedFiles, f)

Seen(f, stage) == events[f][stage].n > 0

\* every stage has reported the key f at most once, the primary stage once
OnceEach(f) == events[f]["primary"].n = 1 /\ \A stage \in Stages : events[f][stage].n <= 1

\* the array of f after trackFile recorded the events of the stages in order
RECURSIVE Replay(_, _, _)
Replay(files, f, order) ==
    IF order = <<>> THEN Lookup(files, f)
    ELSE Replay(trackFile(files, events[f][Head(order)].data, MappingOf(Head(order))),
                f, Tail(order))

\* the orders of the events of f that start with the primary event
Orders(f) ==
    LET later == {stage \in Stages \ {"primary"} : Seen(f, stage)}
        n == Cardinality(later)
    IN  { <<"primary">> \o q : q \in { r \in [1 .. n -> later] :
                                         \A i, j \in 1 .. n : r[i] = r[j] => i = j } }

\* the slots the event of a stage writes
Written(f, stage) == {i \in ColIdx : Replay(<<>>, f, <<stage>>)[i] # Hole}

AllPercentSlot == ColOf("all_percent") - 1

\* C3 as stated: the record of a key does not depend on the order of its gzip,
\* brotli and map events, and no slot is written by two stages
C3_AnyOrder ==
    \A f \in Files : OnceEach(f) =>
        /\ \A order \in Orders(f) : Replay(<<>>, f, order) = Record(f)
        /\ \A a, b \in {stage \in Stages : Seen(f, stage)} :
              a # b => Written(f, a) \cap Written(f, b) = {}

\* C3: for a key every stage reported once, primary first, every slot but
\* all_percent is the same in whatever order the gzip, brotli and map events
\* are recorded, and all_percent is the only slot two stages write; the
\* record is the one some order of the events leaves
C3_OrderOfStages ==
    \A f \in Files : OnceEach(f) =>
        /\ \A order \in Orders(f) :
              LET fileData == Replay(<<>>, f, order) IN
              \A i \in ColIdx \ {AllPercentSlot} : fileData[i] = Record(f)[i]
        /\ \E order \in Orders(f) : Replay(<<>>, f, order) = Record(f)
        /\ \A a, b \in {stage \in Stages : Seen(f, stage)} :
              a # b => Written(f, a) \cap Written(f, b) \subseteq {AllPercentSlot}

\* the brotli, map and gzip events of a key were recorded, gzip last
C3_GzipAfterBrotli ==
    \E f \in Files :
        /\ OnceEach(f)
        /\ \A stage \in Stages : Seen(f, stage)
        /\ IsCompressed(events[f]["gzip"].data) /\ IsCompressed(events[f]["brotli"].data)
        /\ last = [file |-> f, stage |-> "gzip"]

\* the latest trackFile call recorded a .gz or .br file of a key whose
\* primary event is recorded
CompressedLast(f) ==
    /\ last.file = f
    /\ last.stage \in {"gzip", "brotli"}
    /\ IsCompressed(events[f][last.stage].data)
    /\ Seen(f, "primary")

\* C4 as stated: the all_percent of a compression event is its endSize
\* divided by the endSize of the primary event of the key
C4_RatioToMinified ==
    \A f \in Files : CompressedLast(f) =>
        Record(f)[AllPercentSlot] =
            JsDiv(events[f][last.stage].data.endSize, events[f]["primary"].data.endSize)

\* C4: the all_percent of a compression event is its endSize divided by the
\* startSize of the primary event of the key, the size before minification
C4_RatioToSource ==
    \A f \in Files : CompressedLast(f) =>
        Record(f)[AllPercentSlot] =
            JsDiv(events[f][last.stage].data.endSize, events[f]["primary"].data.startSize)

\* a compression event follows a primary event that changed the size
C4_AfterMinify ==
    \E f \in Files :
        /\ CompressedLast(f)
        /\ events[f]["primary"].data.endSize # events[f]["primary"].data.startSize

----------------------------------------------------------------------------
(* Properties of printJsSummary *)

Printed == report # NoReport

\* the rows of the files in the printed table, and its totals row
FileRows == SubSeq(report.tableData, 1, Len(report.tableData) - 1)
Totals == report.tableData[Len(report.tableData)]

\* C6 as stated: printJsSummary leaves the tracked records it read as they
\* were, so that rendering them again gives the same report
C6_ReadUnchanged == [][report' # report => readFiles' = trackedFiles]_vars

\* some file row holds a value in column i
Populated(i) == \E k \in 1 .. Len(FileRows) : FileRows[k][i] # Hole

\* the sum of the values the file rows hold in column i
RECURSIVE ColumnSum(_, _)
ColumnSum(i, k) ==
    IF k > Len(FileRows) THEN Num(0)
    ELSE JsAdd(IF FileRows[k][i] = Hole THEN Num(0) ELSE FileRows[k][i], ColumnSum(i, k + 1))

\* the reference column of all % as C7 states it
ClaimRefCol ==
    IF On(CONF.BROTLI) THEN ColOf("brotli")
    ELSE IF On(CONF.GZIP) THEN ColOf("gzip") ELSE ColOf("uglify")

\* C7: in the totals row a byte column is the sum of the column over the file
\* rows, and the percent columns are the ratios of these sums, all % with the
\* column of brotli, else gzip, else uglify over the column src
C7_TotalsAreSums ==
    Printed =>
        /\ \A i \in byteCols :
              Totals[i] = IF Populated(i) THEN ColumnSum(i, 1) ELSE Hole
        /\ Populated(ColOf("src")) =>
              /\ Totals[ColOf("src_percent")] =
                    JsDiv(ColumnSum(ColOf("uglify"), 1), ColumnSum(ColOf("src"), 1))
              /\ Totals[ColOf("gzip_percent")] =
                    JsDiv(ColumnSum(ColOf("gzip"), 1), ColumnSum(ColOf("uglify"), 1))
              /\ Totals[ColOf("brotli_percent")] =
                    JsDiv(ColumnSum(ColOf("brotli"), 1), ColumnSum(ColOf("uglify"), 1))
              /\ Totals[ColOf("all_percent")] =
                    JsDiv(ColumnSum(ClaimRefCol, 1), ColumnSum(ColOf("src"), 1))

\* a table of two files with different ratios was printed
C7_TwoFiles ==
    /\ Printed
    /\ Len(FileRows) = 2
    /\ \A k \in 1 .. 2 : IsNum(FileRows[k][ColOf("src")]) /\ FileRows[k][ColOf("src")].n > 0
    /\ FileRows[1][ColOf("src_percent")] # FileRows[2][ColOf("src_percent")]
    /\ Populated(ColOf("gzip")) \/ Populated(ColOf("brotli"))

PercentNames == {cols[i + 1] : i \in percentCols}

\* the severity tier of a ratio as C8 states it
ClaimTier(y, c) ==
    IF IsOne(y)
    THEN (IF c = "src_percent" /\ ~On(CONF.JS.UGLIFY) THEN "success" ELSE "danger")
    ELSE IF JsLess(y, 3, 10) THEN "success"
    ELSE IF JsLess(y, 1, 2) THEN "warning"
    ELSE "danger"

\* C8: a populated percent cell of a row is in exactly one tier: good below
\* 0.3, else warning below 0.5, else poor; the ratio 1 is good in src % when
\* minification is off, and poor otherwise
C8_SeverityTiers ==
    \A c \in PercentNames : \A k \in 1 .. Len(report.tableData) :
        \A tier \in {"success", "warning", "danger"} :
            (k - 1) \in report.highLightRow[tier][c]
                <=> /\ report.tableData[k][ColOf(c)] # Hole
                    /\ tier = ClaimTier(report.tableData[k][ColOf(c)], c)

\* a row with the ratio 1 is good in src % and poor in all %, another
\* cell is a warning
C8_AllTiers ==
    /\ \E k \in 1 .. Len(FileRows) :
          /\ IsOne(FileRows[k][ColOf("src_percent")])
          /\ (k - 1) \in report.highLightRow["success"]["src_percent"]
          /\ (k - 1) \in report.highLightRow["danger"]["all_percent"]
    /\ \E c \in PercentNames : report.highLightRow["warning"][c] # {}

AnyShrinking == On(CONF.BROTLI) \/ On(CONF.GZIP) \/ On(CONF.JS.UGLIFY)

\* the file rows are in ascending order of column i when all hold a number there
Ascending(i) ==
    (\A k \in 1 .. Len(FileRows) : IsNum(FileRows[k][i]))
        => \A j, k \in 1 .. Len(FileRows) :
              j < k => Compare(FileRows[j][i], FileRows[k][i]) \in {"lt", "eq"}

\* C9 as stated: without compression and minification, and with source maps
\* on, the rows are sorted by the column of the source map size
C9_SortByMapSize ==
    Printed =>
        LET col == IF AnyShrinking THEN ColOf("all_percent")
                   ELSE IF On(CONF.JS.SOURCEMAPS) THEN ColOf("map") ELSE ColOf("src")
        IN  report.sortCol = col /\ Ascending(col)

\* C9: the rows are sorted ascending by all % if brotli, gzip or minify is on,
\* else by the column uglify (the size of the output) if source maps are on,
\* else by the column src
C9_SortColumn ==
    Printed =>
        LET col == IF AnyShrinking THEN ColOf("all_percent")
                   ELSE IF On(CONF.JS.SOURCEMAPS) THEN ColOf("uglify") ELSE ColOf("src")
        IN  report.sortCol = col /\ Ascending(col)

\* with source maps only, the sort has moved a file in front of an earlier one
C9_SortedWithMaps ==
    /\ Printed
    /\ ~AnyShrinking /\ On(CONF.JS.SOURCEMAPS)
    /\ Len(FileRows) = 2
    /\ \A k \in 1 .. 2 : IsNum(FileRows[k][ColOf("uglify")])
    /\ Compare(FileRows[1][ColOf("uglify")], FileRows[2][ColOf("uglify")]) = "lt"
    /\ readFiles[1].name # FileRows[1][0].s
    /\ Populated(ColOf("map"))

Shown(c) == \E j \in 1 .. Len(report.head) : report.head[j] = c

MapColumns == {"mapFile", "map"}
CompressionColumns ==
    {"gzipFile", "gzip_percent", "gzip", "brotliFile", "brotli_percent", "brotli", "all_percent"}
MinifyColumns == {"src_percent", "uglify"}

\* C10 as stated: the map columns are shown exactly with source maps on, the
\* minification and compression columns exactly with minify, gzip or brotli on
C10_ShownWhenAnyRan ==
    Printed =>
        /\ \A c \in MapColumns : Shown(c) <=> On(CONF.JS.SOURCEMAPS)
        /\ \A c \in CompressionColumns \cup MinifyColumns : Shown(c) <=> AnyShrinking

\* C10: the map columns are shown exactly with source maps on; the compression
\* columns are hidden exactly with source maps, gzip and brotli all off; the
\* minification columns are hidden exactly with minify off as well
C10_Visibility ==
    Printed =>
        /\ Shown("file") /\ Shown("src")
        /\ \A c \in MapColumns : Shown(c) <=> On(CONF.JS.SOURCEMAPS)
        /\ \A c \in CompressionColumns :
              Shown(c) <=> (On(CONF.JS.SOURCEMAPS) \/ On(CONF.GZIP) \/ On(CONF.BROTLI))
        /\ \A c \in MinifyColumns :
              Shown(c) <=> (On(CONF.JS.SOURCEMAPS) \/ On(CONF.GZIP) \/ On(CONF.BROTLI)
                               \/ On(CONF.JS.UGLIFY))
        /\ \A k \in 1 .. Len(report.rows) : Len(report.rows[k]) = Len(report.head)

\* a table was printed with minification only
C10_MinifyOnly ==
    /\ Printed
    /\ Len(FileRows) > 0
    /\ On(CONF.JS.UGLIFY)
    /\ ~On(CONF.JS.SOURCEMAPS) /\ ~On(CONF.GZIP) /\ ~On(CONF.BROTLI)

----------------------------------------------------------------------------
(* Failure semantics *)

\* the raw value of the cell of row k in the visible column j
RawCell(k, j) == report.tableData[k][ColOf(report.head[j])]

\* C11: printJsSummary raises nothing, and every percent cell whose
\* denominator is zero or absent (a ratio that is no number) is printed empty
C11_BlankWithoutDenominator ==
    Printed =>
        \A k \in 1 .. Len(report.rows) : \A j \in 1 .. Len(report.head) :
            /\ report.rows[k][j].t # "TypeError"
            /\ (report.head[j] \in PercentNames /\ RawCell(k, j) # Hole
                    /\ ~IsNum(RawCell(k, j)))
                  => report.rows[k][j] = Str(<<"">>)

----------------------------------------------------------------------------
(* The key of a file name: trackFile called for a base name and the names *)
(* the stages derive from it                                              *)

Parts == {"app", "js", "gz", "br", "map"}

\* base names of 1 .. MaxParts parts
BaseNames == UNION { [1 .. n -> Parts] : n \in 1 .. MaxParts }

\* the name of the file a stage reports for the base name f
StageFile(f, stage) ==
    CASE stage = "gzip" -> f \o <<gZipExtension>>
      [] stage = "brotli" -> f \o <<brotliExtension>>
      [] stage = "map" -> f \o <<"map">>
      [] OTHER -> f

\* trackFile is called with the file of a stage for the base name f
TrackName(f, stage) ==
    /\ \E s \in JsSizes, e \in PackedSizes :
          trackedFiles' = trackFile(trackedFiles, Data(StageFile(f, stage), Num(s), Num(e)),
                                    MappingOf(stage))
    /\ nTracked' = nTracked + 1
    /\ last' = [file |-> f, stage |-> stage]
    /\ UNCHANGED <<options, CONF, readFiles, report, dist, events, printed, graph>>

\* the first event of an asset
FirstName == \E f \in BaseNames, stage \in Stages : nTracked = 0 /\ TrackName(f, stage)

\* an event of another stage for the same asset
NextName ==
    \E stage \in Stages \ {last.stage} : nTracked = 1 /\ TrackName(last.file, stage)

InitKey ==
    /\ options = [ task |-> "production", tag |-> "absent", jsUglify |-> "absent",
                   jsSourcemaps |-> "absent", cssSourcemaps |-> "absent",
                   gzip |-> "absent", brotli |-> "absent" ]
    /\ CONF = mergeConf(InitialConf(options, "v1.0.0"), CONF_PRODUCTION)
    /\ InitTracker
    /\ InitGraph

NextKey == FirstName \/ NextName

SpecKey == InitKey /\ [][NextKey]_vars

\* the name has no known suffix: its last part is not gz, br or map
Plain(f) == f[Len(f)] \notin {"gz", "br", "map"}

\* C12: for a base name f with no known suffix the names f, f.gz, f.br and
\* f.map all map to the key f: after the events of an asset the tracker
\* holds one record, under the base name
C12_OneKeyPerAsset ==
    (last # NoLast /\ Plain(last.file))
        => Len(trackedFiles) = 1 /\ trackedFiles[1].name = last.file

\* the events of two stages of app.js were recorded, the .gz file last
C12_TwoStages ==
    /\ nTracked = 2
    /\ last = [file |-> <<"app", "js">>, stage |-> "gzip"]
    /\ Len(trackedFiles) = 1


----------------------------------------------------------------------------
(* The command line and the defaults of the task: task:configProduction    *)
(* and task:configDevelop on every command line                            *)

Tags == {"absent", "v2.0.0"}

AllCommandLines ==
    [ task : Tasks, tag : Tags, jsUglify : OptionValues, jsSourcemaps : OptionValues,
      cssSourcemaps : OptionValues, gzip : OptionValues, brotli : OptionValues ]

InitConf ==
    /\ options \in AllCommandLines
    /\ \E tagVersion \in TagVersions : CONF = InitialConf(options, tagVersion)
    /\ InitTracker
    /\ combinedJsFiles = {}
    /\ todo = [b \in Branches |-> IF b = "main" THEN MainSeries(CONF.TASK) ELSE <<>>]
    /\ started = [b \in Branches |-> FALSE]
    /\ queue = [b \in Branches |-> <<>>]
    /\ changed = [t \in SinceTasks |-> Files]
    /\ newer = [b \in Branches |-> {}]
    /\ rebuilds = 0
    /\ prints = [b \in Branches |-> 0]
    /\ lateTracks = FALSE
    /\ jsDest = [f \in JsFiles |-> "old"]
    /\ ran = <<>>

NextConf == Configure("main")

SpecConf == InitConf /\ [][NextConf]_vars

ConfigTasks == {"task:configProduction", "task:configDevelop"}

\* the flags of a configuration, by the option that sets each
FlagsOf(conf) ==
    [ jsUglify |-> conf.JS.UGLIFY, jsSourcemaps |-> conf.JS.SOURCEMAPS,
      cssSourcemaps |-> conf.CSS.SOURCEMAPS, gzip |-> conf.GZIP, brotli |-> conf.BROTLI ]

\* the default of every flag: false for the default task, true for production
TaskDefault(task) == IF task = "production" THEN "true" ELSE "false"

DefaultsOf(task) == IF task = "production" THEN CONF_PRODUCTION ELSE CONF_DEVELOP

\* C13: the step of task:configProduction / task:configDevelop leaves every
\* flag at the value the command line gave it ('true' or 'false') and, when
\* the option is absent, at the default of the task (false for default, true
\* for production); TASK, TAG and DEBUG keep their values; and merging the
\* defaults of the task a second time changes nothing
C13_CommandLineOverDefaults ==
    [][ (Current("main") \in ConfigTasks /\ todo' # todo) =>
          /\ \A o \in DOMAIN FlagsOf(CONF') :
                /\ options[o] \in Flags => FlagsOf(CONF')[o] = options[o]
                /\ options[o] = "absent" => FlagsOf(CONF')[o] = TaskDefault(options.task)
          /\ CONF'.TASK = CONF.TASK
          /\ CONF'.TAG = CONF.TAG
          /\ CONF'.DEBUG = CONF.DEBUG
          /\ mergeConf(CONF', DefaultsOf(options.task)) = CONF' ]_vars

\* production was configured with --gzip=false and no --brotli: gzip is off
\* against the default and brotli is on by the default
C13_OverrideAndDefault ==
    /\ Current("main") \notin ConfigTasks
    /\ options.task = "production"
    /\ options.gzip = "false" /\ CONF.GZIP = "false"
    /\ options.brotli = "absent" /\ CONF.BROTLI = "true"
    /\ options.cssSourcemaps = "true" /\ options.jsUglify = "false"
    /\ CONF.TAG # "undefined"


----------------------------------------------------------------------------
(* The frame of trackFile *)

KeysOf(files) == {files[i].name : i \in 1 .. Len(files)}

\* the tracker with the entry of the key k alone
OnlyKey(files, k) == SelectSeq(files, LAMBDA entry : entry.name = k)

\* the data and the stage of the call a trackFile step makes
LastData == events'[last'.file][last'.stage].data
LastKey == srcFileName(LastData.fileName.s)

\* C14: a trackFile call for the key k leaves the record of every other key
\* and the set of the other keys as they were, and the record it gives k is
\* the one it gives k in a tracker that holds no other key: so the record of
\* a key is that of its own events in their order, however the events of
\* other keys are interleaved with them
C14_OnlyItsKey ==
    [][ nTracked' = nTracked + 1 =>
          /\ \A f \in Files \ {LastKey} :
                Lookup(trackedFiles', f) = Lookup(trackedFiles, f)
          /\ KeysOf(trackedFiles') \ {LastKey} = KeysOf(trackedFiles) \ {LastKey}
          /\ Lookup(trackedFiles', LastKey) =
                Lookup(trackFile(OnlyKey(trackedFiles, LastKey), LastData,
                                 MappingOf(last'.stage)), LastKey) ]_vars

\* the events of two keys interleaved: the stylesheet was tracked first, then
\* the bundle, and the latest call is the gzip event of the bundle after the
\* gzip event of the stylesheet
C14_Interleaved ==
    /\ nTracked = 4
    /\ Len(trackedFiles) = 2
    /\ trackedFiles[1].name = <<"main", "css">>
    /\ \A f \in Files : events[f]["primary"].n = 1 /\ events[f]["gzip"].n = 1
    /\ last = [file |-> <<"app", "js">>, stage |-> "gzip"]
    /\ Record(<<"main", "css">>)[ColOf("gzip_percent") - 1] # Hole


----------------------------------------------------------------------------
(* The order of task:buildJs *)

\* the places of ran where the js branch completed the task
Completed(task) == {i \in 1 .. Len(ran) : ran[i] = [task |-> task, ok |-> TRUE]}

\* a task of the js branch ended with an error
Failed(task) == \E i \in 1 .. Len(ran) : ran[i] = [task |-> task, ok |-> FALSE]

BuildDir == {f \in JsFiles : dist[f] >= 0}

\* C15: in task:buildJs (the js branch of production), task:cleanJsDest
\* completes only after task:concatJS and then task:diffJS completed, and
\* never once one of them failed: until it runs the final directory holds the
\* previous build; and task:cleanJsBuild runs only after task:renameJsDest
\* completed, when every file of the build directory is in the final one
C15_PreviousBuildKept ==
    CONF.TASK = "production" =>
        /\ \A i \in Completed("task:cleanJsDest") :
              \E j \in Completed("task:concatJS"), k \in Completed("task:diffJS") :
                  j < k /\ k < i
        /\ (Failed("task:concatJS") \/ Failed("task:diffJS"))
              => Completed("task:cleanJsDest") = {}
        /\ Completed("task:cleanJsDest") = {} => \A f \in JsFiles : jsDest[f] = "old"
        /\ \A i \in Completed("task:cleanJsBuild") :
              \E j \in Completed("task:renameJsDest") : j < i
        /\ Current("js") = "task:cleanJsBuild" => \A f \in BuildDir : jsDest[f] = "new"

\* task:buildJs ran to its end: the build directory is deleted and the final
\* directory holds the new build
C15_BuildMoved ==
    /\ CONF.TASK = "production"
    /\ todo["js"] = <<>>
    /\ Len(ran) = Len(buildJs)
    /\ \A i \in 1 .. Len(ran) : ran[i] = [task |-> buildJs[i], ok |-> TRUE]
    /\ BuildDir = {}
    /\ \A f \in JsFiles : jsDest[f] = "new"

====
